---- MODULE Spec2Model ----
(***************************************************************************)
(* Model of update_dokuwiki.py: make_hashable (the canonicalizer) and      *)
(* merge_similar_spawns (the merge engine).                                *)
(*                                                                         *)
(* JSON values are tagged tuples, so that a Python dict keeps the order in *)
(* which its items are enumerated and a list stays distinct from a tuple:  *)
(*   <<"none">>            None                                            *)
(*   <<"bool", b>>         True / False                                    *)
(*   <<"int", n>>          an integer                                      *)
(*   <<"str", s>>          a string                                        *)
(*   <<"list", seq>>       a list                                          *)
(*   <<"dict", items>>     a dict, items = sequence of <<key, value>> in   *)
(*                         enumeration (insertion) order, keys unique      *)
(*   <<"tuple", seq>>      a tuple         (only produced by the code)     *)
(*   <<"frozenset", S>>    a frozenset     (only produced by the code)     *)
(***************************************************************************)
EXTENDS Integers, Sequences, FiniteSets, TLC

PyNone == <<"none">>
PyBool(b) == <<"bool", b>>
PyInt(n) == <<"int", n>>
PyStr(s) == <<"str", s>>
PyList(s) == <<"list", s>>
PyDict(items) == <<"dict", items>>
PyTuple(s) == <<"tuple", s>>
PyFrozenSet(S) == <<"frozenset", S>>

IsNone(v) == v[1] = "none"
IsStr(v) == v[1] = "str"
IsList(v) == v[1] = "list"
IsDict(v) == v[1] = "dict"

Range(s) == {s[j] : j \in 1..Len(s)}

\* Python truthiness, as used by `x or y` and `if x`.
Truthy(v) ==
    CASE v[1] = "none" -> FALSE
      [] v[1] = "bool" -> v[2]
      [] v[1] = "int" -> v[2] # 0
      [] v[1] = "str" -> v[2] # ""
      [] v[1] = "list" -> Len(v[2]) > 0
      [] v[1] = "dict" -> Len(v[2]) > 0
      [] v[1] = "tuple" -> Len(v[2]) > 0
      [] v[1] = "frozenset" -> v[2] # {}

\* key in d
DictHas(d, k) == \E j \in 1..Len(d[2]) : d[2][j][1] = k

\* d.get(k, default)
DictGet(d, k, default) ==
    IF DictHas(d, k)
    THEN d[2][CHOOSE j \in 1..Len(d[2]) : d[2][j][1] = k][2]
    ELSE default

\* d[k] = v on a dict: an existing key keeps its place, a new key goes last.
DictSet(d, k, v) ==
    IF DictHas(d, k)
    THEN PyDict([j \in 1..Len(d[2]) |-> IF d[2][j][1] = k THEN <<k, v>> ELSE d[2][j]])
    ELSE PyDict(Append(d[2], <<k, v>>))

\* x or y
Or(x, y) == IF Truthy(x) THEN x ELSE y

(***************************************************************************)
(* Ordering of the strings of the model, in Python's str order (code point *)
(* by code point).                                                         *)
(***************************************************************************)
StrOrder ==
    << "", "a", "anticondition", "b", "biomes", "bucket", "condition", "context",
       "count", "eevee", "forest", "grounded", "id", "isRaining",
       "item_requirement", "level", "multiplier", "pikachu", "plains",
       "pokemon_in_party_requirement", "presets", "species", "swamp", "weight",
       "weightMultiplier" >>

StrRank(s) == CHOOSE r \in 1..Len(StrOrder) : StrOrder[r] = s

\* sorted(seq, key=...) where rk[j] is the rank of the sort key of seq[j]:
\* Python's sort is stable, so equal keys keep their input order.
StableSort(seq, rk) ==
    LET n == Len(seq)
        pos(j) == Cardinality({k \in 1..n : rk[k] < rk[j] \/ (rk[k] = rk[j] /\ k < j)}) + 1
    IN  [p \in 1..n |-> seq[CHOOSE j \in 1..n : pos(j) = p]]

\* sorted(data.items()): the keys of a dict are unique, so the tuple
\* comparison is decided by the keys alone.
SortedItems(items) == StableSort(items, [j \in 1..Len(items) |-> StrRank(items[j][1])])

\* sorted(list(s)) for a set of strings
SortedStrings(S) ==
    LET n == Cardinality(S)
    IN  [p \in 1..n |-> CHOOSE s \in S : Cardinality({t \in S : StrRank(t) < StrRank(s)}) = p - 1]

\* A plausible slip in make_hashable: a dict becomes the tuple of its items
\* in enumeration order.
RECURSIVE make_hashable_ordered(_)
make_hashable_ordered(data) ==
    IF IsDict(data)
    THEN PyTuple([j \in 1..Len(data[2]) |->
                  PyTuple(<<PyStr(data[2][j][1]), make_hashable_ordered(data[2][j][2])>>)])
    ELSE IF IsList(data)
    THEN PyTuple([j \in 1..Len(data[2]) |-> make_hashable_ordered(data[2][j])])
    ELSE data

RECURSIVE make_hashable(_)
make_hashable(data) ==
    IF IsDict(data)
    THEN PyFrozenSet({<<it[1], make_hashable(it[2])>> : it \in Range(SortedItems(data[2]))})
    ELSE IF IsList(data)
    THEN PyTuple([j \in 1..Len(data[2]) |-> make_hashable(data[2][j])])
    ELSE data

(***************************************************************************)
(* merge_similar_spawns: the per-record key construction.                  *)
(***************************************************************************)
EmptyDict == PyDict(<<>>)
EmptyList == PyList(<<>>)

\* conditions = spawn.get("condition", {}) or {}
ConditionsOf(spawn) == Or(DictGet(spawn, "condition", EmptyDict), EmptyDict)

\* anticonditions = spawn.get("anticondition", {}) or {}
AnticonditionsOf(spawn) == Or(DictGet(spawn, "anticondition", EmptyDict), EmptyDict)

\* {k: v for k, v in conditions.items() if k != 'biomes'}
NotBiomes(it) == it[1] # "biomes"
KeyConditions(conditions) == PyDict(SelectSeq(conditions[2], NotBiomes))

\* sorted(value or [], key=lambda x: x.get(field, '')) raises when the value
\* cannot be iterated into dicts (x.get fails) or the sort fields cannot be
\* compared with one another.  Within the model every sort field is a string.
SortRaises(value, field) ==
    LET l == Or(value, EmptyList)
    IN  \/ ~IsList(l)
        \/ \E x \in Range(l[2]) : ~IsDict(x)
        \/ /\ Len(l[2]) >= 2
           /\ \E x \in Range(l[2]) : ~IsStr(DictGet(x, field, PyStr("")))

\* A plausible slip: the requirement lists are hashed as they come, unsorted.
UnsortedByField(value, field) == PyList(Or(value, EmptyList)[2])

\* sorted(value or [], key=lambda x: x.get(field, ''))
SortedByField(value, field) ==
    LET l == Or(value, EmptyList)[2]
    IN  PyList(StableSort(l, [j \in 1..Len(l) |-> StrRank(DictGet(l[j], field, PyStr(""))[2])]))

\* Lines 149-166 raise (outside the try) when conditions has no .items() or
\* when one of the two requirement lists cannot be sorted.
PreKeyRaises(spawn) ==
    \/ ~IsDict(ConditionsOf(spawn))
    \/ LET kc == KeyConditions(ConditionsOf(spawn))
       IN  \/ SortRaises(DictGet(kc, "pokemon_in_party_requirement", EmptyList), "species")
           \/ SortRaises(DictGet(kc, "item_requirement", EmptyList), "id")

\* key_conditions with the two requirement lists replaced by their sorted,
\* hashable versions (only when the key is present), then made hashable.
HashableConditions(spawn) ==
    LET kc0 == KeyConditions(ConditionsOf(spawn))
        party == make_hashable(SortedByField(
                     DictGet(kc0, "pokemon_in_party_requirement", EmptyList), "species"))
        kc1 == IF DictHas(kc0, "pokemon_in_party_requirement")
               THEN DictSet(kc0, "pokemon_in_party_requirement", party) ELSE kc0
        item == make_hashable(SortedByField(DictGet(kc1, "item_requirement", EmptyList), "id"))
        kc2 == IF DictHas(kc1, "item_requirement")
               THEN DictSet(kc1, "item_requirement", item) ELSE kc1
    IN  make_hashable(kc2)

\* tuple(sorted(spawn.get("presets", []))) raises inside the try when presets
\* is not iterable (null, a number, a boolean) or its elements cannot be
\* compared.  Within the model a presets list holds strings.
PresetsRaise(spawn) ==
    LET v == DictGet(spawn, "presets", EmptyList)
    IN  \/ v[1] \in {"none", "bool", "int"}
        \/ IsList(v) /\ Len(v[2]) >= 2 /\ \E x \in Range(v[2]) : ~IsStr(x)

SortedPresets(spawn) ==
    LET v == DictGet(spawn, "presets", EmptyList)[2]
    IN  PyTuple(StableSort(v, [j \in 1..Len(v) |-> StrRank(v[j][2])]))

\* str(value) as an f-string formats it
Format(v) ==
    CASE v[1] = "str" -> v[2]
      [] v[1] = "none" -> "None"
      [] v[1] = "bool" -> (IF v[2] THEN "True" ELSE "False")
      [] v[1] = "int" -> ToString(v[2])

\* os.urandom(8).hex() of the n-th call: 16 hex digits.  The 64 random bits
\* are modelled as never repeating within one run.
UrandomHex(n) == "000000000000000" \o ToString(n)

\* key_tuple as lines 169-183 set it: the tuple of the grouping attributes,
\* or, when building it raised, the string "unique_<id or random token>".
key_tuple(spawn, token) ==
    IF PresetsRaise(spawn)
    THEN PyStr("unique_" \o Format(DictGet(spawn, "id", PyStr(token))))
    ELSE PyTuple(<< DictGet(spawn, "context", PyNone),
                    DictGet(spawn, "level", PyNone),
                    DictGet(spawn, "bucket", PyNone),
                    DictGet(spawn, "weight", PyNone),
                    make_hashable(DictGet(spawn, "weightMultiplier", PyNone)),
                    HashableConditions(spawn),
                    make_hashable(AnticonditionsOf(spawn)),
                    SortedPresets(spawn) >>)

\* hash(value) succeeds: no list or dict anywhere inside a tuple.
RECURSIVE Hashable(_)
Hashable(v) ==
    CASE v[1] \in {"list", "dict"} -> FALSE
      [] v[1] = "tuple" -> \A j \in 1..Len(v[2]) : Hashable(v[2][j])
      [] OTHER -> TRUE

\* A plausible slip: the single-string case of lines 190-191 is left out.
SpawnBiomesListOnly(spawn) ==
    LET b == DictGet(ConditionsOf(spawn), "biomes", EmptyList)
    IN  IF IsList(b) THEN {x \in Range(b[2]) : Truthy(x)} ELSE {}

\* The biomes one record adds to its group (lines 187-191): the non-empty
\* elements of a list, or a non-empty single value.
SpawnBiomes(spawn) ==
    LET b == DictGet(ConditionsOf(spawn), "biomes", EmptyList)
    IN  IF IsList(b) THEN {x \in Range(b[2]) : Truthy(x)}
        ELSE IF Truthy(b) THEN {b} ELSE {}

(***************************************************************************)
(* The bounded input domain: spawn records as the loader hands them over.  *)
(***************************************************************************)
MaxLen == 3

Absent == <<"absent">>
Present(it) == it[2] # Absent

Spawn(id, context, level, presets, condition) ==
    PyDict(SelectSeq(<< <<"id", id>>, <<"context", context>>, <<"level", level>>,
                        <<"bucket", PyStr("b")>>, <<"weight", PyInt(5)>>,
                        <<"presets", presets>>, <<"condition", condition>> >>, Present))

Grounded == PyStr("grounded")
Biomes(seq) == <<"biomes", PyList(seq)>>
Forest == PyStr("forest")
Plains == PyStr("plains")
Swamp == PyStr("swamp")
Raining == <<"isRaining", PyBool(TRUE)>>

\* sub-records of pokemon_in_party_requirement and item_requirement
Eevee1 == PyDict(<< <<"species", PyStr("eevee")>>, <<"count", PyInt(1)>> >>)
Eevee2 == PyDict(<< <<"count", PyInt(2)>>, <<"species", PyStr("eevee")>> >>)
Pikachu == PyDict(<< <<"species", PyStr("pikachu")>> >>)
NoSpecies == PyDict(<< <<"count", PyInt(1)>> >>)
ItemA == PyDict(<< <<"id", PyStr("a")>>, <<"count", PyInt(1)>> >>)
ItemB == PyDict(<< <<"id", PyStr("b")>> >>)
Party(seq) == <<"pokemon_in_party_requirement", PyList(seq)>>
Items(seq) == <<"item_requirement", PyList(seq)>>

Plain(condition) == Spawn(Absent, Grounded, PyInt(10), Absent, condition)

Fallback(id, condition) == Spawn(id, Grounded, PyInt(10), PyNone, condition)

\* Records whose key is built: they differ in their biomes, in one condition
\* key, or in their id.
BiomeRecords ==
    { Plain(PyDict(<<Biomes(<<Forest>>)>>)),
      Plain(PyDict(<<Biomes(<<Plains>>)>>)),
      Plain(PyDict(<<Biomes(<<Forest, Swamp>>)>>)),
      Plain(PyDict(<<Biomes(<<PyStr(""), Plains>>)>>)),
      Plain(PyDict(<< <<"biomes", Swamp>> >>)),
      Plain(PyDict(<<Raining, Biomes(<<Forest>>)>>)),
      Plain(Absent),
      Spawn(PyStr("a"), Grounded, PyInt(10), Absent, PyDict(<<Biomes(<<Plains>>)>>)) }

\* Records for which building the key raises (presets is null, the context
\* is a list, a sub-record is no mapping) or whose condition is null, next
\* to two records whose key is built.
FailingRecords ==
    { Plain(PyDict(<<Biomes(<<Forest>>)>>)),
      Plain(PyDict(<<Biomes(<<Plains>>)>>)),
      Fallback(PyStr("a"), PyDict(<<Biomes(<<Forest>>)>>)),
      Fallback(PyStr("a"), PyDict(<<Biomes(<<Forest>>), Raining>>)),
      Fallback(Absent, PyDict(<<Biomes(<<Plains>>)>>)),
      Spawn(Absent, PyList(<<Grounded>>), PyInt(10), Absent, PyDict(<<Biomes(<<Forest>>)>>)),
      Plain(PyDict(<<Biomes(<<Forest>>), Party(<<PyStr("pikachu")>>)>>)),
      Plain(PyNone) }

\* Records that differ in the enumeration order of a mapping or of a list of
\* sub-records.
RequirementRecords ==
    { Plain(PyDict(<<Biomes(<<Forest>>), Party(<<Eevee1, Pikachu>>)>>)),
      Plain(PyDict(<<Biomes(<<Forest>>), Party(<<Pikachu, Eevee1>>)>>)),
      Plain(PyDict(<<Biomes(<<Forest>>), Party(<<Eevee1, Eevee2>>)>>)),
      Plain(PyDict(<<Biomes(<<Forest>>), Party(<<Eevee2, Eevee1>>)>>)),
      Plain(PyDict(<<Biomes(<<Plains>>), Party(<<NoSpecies, Pikachu>>)>>)),
      Plain(PyDict(<<Biomes(<<Plains>>), Party(<<Pikachu, NoSpecies>>)>>)),
      Plain(PyDict(<<Biomes(<<Forest>>), Items(<<ItemA, ItemB>>), Raining>>)),
      Plain(PyDict(<<Raining, Biomes(<<Forest>>), Items(<<ItemB, ItemA>>)>>)) }

RecordFamilies == {BiomeRecords, FailingRecords, RequirementRecords}

SpawnLists(records) == UNION {[1..n -> records] : n \in 0..MaxLen}

(***************************************************************************)
(* merge_similar_spawns as a state machine.                                *)
(*   spawn_list     the argument                                           *)
(*   i              index of the next record of the for loop (line 144)    *)
(*   keys           keys[j] = the key_tuple the loop gave record j         *)
(*   merged_spawns  the defaultdict, as the sequence of its entries        *)
(*                  [key, biomes, spawns] in insertion order               *)
(*   final_list     the returned list                                      *)
(*   pc             "fold" (lines 144-195), "convert" (lines 198-207),     *)
(*                  "done" (returned), "raised" (left by an exception)     *)
(*   first          <<>> during the first application; once the function   *)
(*                  is applied to its own result, the keys and the result  *)
(*                  of the first application                               *)
(*   stores         the writes of the call into lists and dicts, in order: *)
(*                  [object, field, value], object the identity of the     *)
(*                  list or dict written to                                *)
(***************************************************************************)
VARIABLES spawn_list, i, keys, merged_spawns, final_list, pc, first, stores

(***************************************************************************)
(* make_hashable on its own, applied to the enumeration orders of one      *)
(* mapping.                                                                *)
(*   given   the mapping as first enumerated                               *)
(*   data    the same mapping in its current enumeration order             *)
(*   hashed  what make_hashable returned for data, or Pending              *)
(***************************************************************************)
VARIABLES given, data, hashed

(***************************************************************************)
(* The text normalization of update_wiki_page on its own.                  *)
(*   content     a text                                                    *)
(*   restyled    the same text, or one that differs from it only in line   *)
(*               breaks and in whitespace that the layout does not show    *)
(*   normalized  what the normalization returned for restyled, or Pending  *)
(***************************************************************************)
VARIABLES content, restyled, normalized

(***************************************************************************)
(* update_wiki_page and the remote store.                                  *)
(*   store                the remote pages: page name -> text or NoPage    *)
(*   page_name            the argument page_name                           *)
(*   new_content          the argument new_content                         *)
(*   current_content_str  the local of line 425                            *)
(*   pcPage               "idle" (not called), "read" (line 427),          *)
(*                        "compare" (line 436), "returned"                 *)
(*   result               the returned value, or Pending                   *)
(*   reads                the page names wiki.page was called with         *)
(*   puts                 the [page, text] wiki.put_page was called with   *)
(***************************************************************************)
VARIABLES store, page_name, new_content, current_content_str, pcPage, result,
          reads, puts

(***************************************************************************)
(* main.                                                                   *)
(*   credentials      all([args.url, args.user, args.password])            *)
(*   pokedex_data     the names that have an entry in the pokedex table    *)
(*   pokemon_spawns   the names that have spawn records, in dict order     *)
(*   raising          the names whose spawn records make the rendering     *)
(*                    raise                                                *)
(*   wiki             NoWiki before the login, then what wiki_login        *)
(*                    returned: PyNone or Client                           *)
(*   cursor           index of the subject the for loop of line 517 is at  *)
(*   success_count, fail_count, processed_count   the counters of line 515 *)
(*   published        the names whose document went to update_wiki_page    *)
(*   pcMain           "start", "login", "loop", "update", "exited"         *)
(*   exit_status      the status the process ended with, or Pending        *)
(***************************************************************************)
VARIABLES credentials, pokedex_data, pokemon_spawns, raising, wiki, cursor,
          success_count, fail_count, processed_count, published, pcMain,
          exit_status

mergeVars == <<spawn_list, i, keys, merged_spawns, final_list, pc, first, stores>>
hashVars == <<given, data, hashed>>
textVars == <<content, restyled, normalized>>
pageVars == <<store, page_name, new_content, current_content_str, pcPage, result, reads, puts>>
mainVars == <<credentials, pokedex_data, pokemon_spawns, raising, wiki, cursor,
              success_count, fail_count, processed_count, published, pcMain,
              exit_status>>
wikiVars == <<textVars, pageVars, mainVars>>
vars == <<spawn_list, i, keys, merged_spawns, final_list, pc, first, stores, given, data, hashed,
          content, restyled, normalized,
          store, page_name, new_content, current_content_str, pcPage, result, reads, puts,
          credentials, pokedex_data, pokemon_spawns, raising, wiki, cursor,
          success_count, fail_count, processed_count, published, pcMain, exit_status>>

Pending == <<"pending">>
NoPage == <<"nopage">>
NoWiki == <<"nowiki">>

\* The parts of the state a specification does not use stay as they start.
MergeIdle ==
    /\ spawn_list = <<>>
    /\ i = 1
    /\ keys = <<>>
    /\ merged_spawns = <<>>
    /\ final_list = <<>>
    /\ pc = "fold"
    /\ first = <<>>
    /\ stores = <<>>

HashIdle ==
    /\ given = PyNone
    /\ data = PyNone
    /\ hashed = Pending

TextIdle ==
    /\ content = <<>>
    /\ restyled = <<>>
    /\ normalized = Pending

PageIdle ==
    /\ store = <<>>
    /\ page_name = ""
    /\ new_content = <<>>
    /\ current_content_str = <<>>
    /\ pcPage = "idle"
    /\ result = Pending
    /\ reads = <<>>
    /\ puts = <<>>

MainIdle ==
    /\ credentials = FALSE
    /\ pokedex_data = {}
    /\ pokemon_spawns = <<>>
    /\ raising = {}
    /\ wiki = NoWiki
    /\ cursor = 1
    /\ success_count = 0
    /\ fail_count = 0
    /\ processed_count = 0
    /\ published = {}
    /\ pcMain = "start"
    /\ exit_status = Pending

Init ==
    /\ \E records \in RecordFamilies : spawn_list \in SpawnLists(records)
    /\ i = 1
    /\ keys = <<>>
    /\ merged_spawns = <<>>
    /\ final_list = <<>>
    /\ pc = "fold"
    /\ first = <<>>
    /\ stores = <<>>
    /\ HashIdle
    /\ TextIdle
    /\ PageIdle
    /\ MainIdle

\* A plausible slip: the lookup never finds the group.
HasKeyNever(groups, key) == FALSE

HasKey(groups, key) == \E g \in 1..Len(groups) : groups[g].key = key

GroupOf(groups, key) == CHOOSE g \in 1..Len(groups) : groups[g].key = key

\* A plausible slip: the representative is overwritten by every record.
AddToGroupLast(groups, key, spawn) ==
    IF HasKey(groups, key)
    THEN [groups EXCEPT ![GroupOf(groups, key)] =
             [key |-> key, biomes |-> @.biomes \cup SpawnBiomes(spawn), spawns |-> <<spawn>>]]
    ELSE Append(groups, [key |-> key, biomes |-> SpawnBiomes(spawn), spawns |-> <<spawn>>])

\* A plausible slip: the record's biomes replace the set of the group.
AddToGroupReplace(groups, key, spawn) ==
    IF HasKey(groups, key)
    THEN [groups EXCEPT ![GroupOf(groups, key)] =
             [key |-> key, biomes |-> SpawnBiomes(spawn), spawns |-> @.spawns]]
    ELSE Append(groups, [key |-> key, biomes |-> SpawnBiomes(spawn), spawns |-> <<spawn>>])

\* Lines 186-195: merged_spawns[key_tuple] is created on first use, the
\* record's biomes are added to its set, and the record is stored as the
\* representative only when the group has none.
AddToGroup(groups, key, spawn) ==
    IF HasKey(groups, key)
    THEN [groups EXCEPT ![GroupOf(groups, key)] =
             [key |-> key,
              biomes |-> @.biomes \cup SpawnBiomes(spawn),
              spawns |-> IF @.spawns = <<>> THEN <<spawn>> ELSE @.spawns]]
    ELSE Append(groups, [key |-> key, biomes |-> SpawnBiomes(spawn), spawns |-> <<spawn>>])

\* os.urandom is called at most once per record (line 183), and no two
\* calls of one process give the same token: the token of record i is
\* numbered after the records of the earlier application.
Token(j) ==
    UrandomHex((IF first = <<>> THEN 0 ELSE Len(first[1].keys)) + j)

(***************************************************************************)
(* The identities of the objects the call reads and writes.  A record of   *)
(* the argument, its condition mapping and its requirement lists belong to *)
(* the caller; what sorted(), a dict comprehension, a {} literal or        *)
(* dict.copy() returns is a new object.                                    *)
(***************************************************************************)
Record(j) == <<"record", j>>
Condition(j) == <<"condition", j>>
RequirementList(j, key) == <<"list", j, key>>

\* A plausible slip: no copy is taken, the object itself is used.
copy_alias(object) == object

\* dict.copy() (lines 203 and 204): a new dict with the same items.
copy(object) == <<"copy", object>>

RequirementKeys ==
    <<<<"pokemon_in_party_requirement", "species">>, <<"item_requirement", "id">>>>

\* Lines 149-162 for record j: sorted() writes the sorted sub-records into a
\* new list; the hashable form is stored under its key in key_conditions,
\* the new dict of line 149, when the key is there.
RequirementStores(j, kf) ==
    LET kc == KeyConditions(ConditionsOf(spawn_list[j]))
        sorted == SortedByField(DictGet(kc, kf[1], EmptyList), kf[2])
    IN  <<[object |-> <<"sorted", RequirementList(j, kf[1])>>, field |-> "items",
           value |-> sorted]>>
        \o (IF DictHas(kc, kf[1])
            THEN <<[object |-> <<"key_conditions", j>>, field |-> kf[1],
                    value |-> make_hashable(sorted)]>>
            ELSE <<>>)

FoldStores(j) ==
    RequirementStores(j, RequirementKeys[1]) \o RequirementStores(j, RequirementKeys[2])

\* One iteration of the for loop of line 144 that runs to its end.
Fold ==
    /\ pc = "fold"
    /\ i <= Len(spawn_list)
    /\ ~PreKeyRaises(spawn_list[i])
    /\ LET key == key_tuple(spawn_list[i], Token(i))
       IN  /\ Hashable(key)
           /\ keys' = Append(keys, key)
           /\ merged_spawns' = AddToGroup(merged_spawns, key, spawn_list[i])
    /\ i' = i + 1
    /\ stores' = stores \o FoldStores(i)
    /\ UNCHANGED <<spawn_list, final_list, pc, first>>
    /\ UNCHANGED <<hashVars, wikiVars>>

\* An iteration that raises outside the try: in the sort of a requirement
\* list (lines 149-166), or when the dict hashes a key_tuple that holds a
\* list or a dict (line 189 or 194).
FoldRaise ==
    /\ pc = "fold"
    /\ i <= Len(spawn_list)
    /\ \/ PreKeyRaises(spawn_list[i])
       \/ /\ ~PreKeyRaises(spawn_list[i])
          /\ ~Hashable(key_tuple(spawn_list[i], Token(i)))
    /\ pc' = "raised"
    /\ UNCHANGED <<spawn_list, i, keys, merged_spawns, final_list, first, stores>>
    /\ UNCHANGED <<hashVars, wikiVars>>

\* The for loop is exhausted.
FoldEnd ==
    /\ pc = "fold"
    /\ i > Len(spawn_list)
    /\ pc' = "convert"
    /\ UNCHANGED <<spawn_list, i, keys, merged_spawns, final_list, first, stores>>
    /\ UNCHANGED <<hashVars, wikiVars>>

\* new_spawn.get("condition", {}).copy() raises when condition is present
\* and has no copy() or cannot take an item (null, a number, a string).
CopyRaises(group) ==
    ~IsDict(DictGet(group.spawns[1], "condition", EmptyDict))

\* A plausible slip: list(merged_data["biomes"]) without sorted(), here in
\* the order a set may well enumerate, descending.
NewSpawnUnsorted(group) ==
    LET rep == group.spawns[1]
        condition == DictGet(rep, "condition", EmptyDict)
        sorted == SortedStrings({b[2] : b \in group.biomes})
        n == Len(sorted)
    IN  DictSet(rep, "condition",
                DictSet(condition, "biomes", PyList([p \in 1..n |-> PyStr(sorted[n + 1 - p])])))

\* A plausible slip: the representative is returned as it came, without
\* the biomes of its group.
NewSpawnOwnBiomes(group) ==
    group.spawns[1]

\* Lines 202-205: the representative with condition.biomes replaced.
NewSpawn(group) ==
    LET rep == group.spawns[1]
        condition == DictGet(rep, "condition", EmptyDict)
        sorted == SortedStrings({b[2] : b \in group.biomes})
    IN  DictSet(rep, "condition",
                DictSet(condition, "biomes", PyList([p \in 1..Len(sorted) |-> PyStr(sorted[p])])))

\* merged_data["spawns"][0] is the first record that was given the key
\* (lines 194-195 append to an empty list only).
RepresentativeIndex(key) ==
    CHOOSE j \in 1..Len(keys) : keys[j] = key /\ \A h \in 1..(j - 1) : keys[h] # key

\* Lines 203-205 for one group: the item "condition" is stored in the copy
\* of the representative, the item "biomes" in the copy of its condition
\* (of a {} literal when it has none).
GroupStores(g) ==
    LET r == RepresentativeIndex(merged_spawns[g].key)
        new_spawn == copy(Record(r))
        condition == IF DictHas(spawn_list[r], "condition")
                     THEN Condition(r) ELSE <<"literal", g>>
        made == NewSpawn(merged_spawns[g])
    IN  <<[object |-> new_spawn, field |-> "condition",
           value |-> DictGet(made, "condition", EmptyDict)],
          [object |-> copy(condition), field |-> "biomes",
           value |-> DictGet(DictGet(made, "condition", EmptyDict), "biomes", EmptyList)]>>

RECURSIVE StoresUpTo(_)
StoresUpTo(g) == IF g = 0 THEN <<>> ELSE StoresUpTo(g - 1) \o GroupStores(g)

ConvertStores == StoresUpTo(Len(merged_spawns))

\* Lines 198-209 when no group raises.
Convert ==
    /\ pc = "convert"
    /\ \A g \in 1..Len(merged_spawns) : ~CopyRaises(merged_spawns[g])
    /\ final_list' = [g \in 1..Len(merged_spawns) |-> NewSpawn(merged_spawns[g])]
    /\ pc' = "done"
    /\ stores' = stores \o ConvertStores
    /\ UNCHANGED <<spawn_list, i, keys, merged_spawns, first>>
    /\ UNCHANGED <<hashVars, wikiVars>>

\* Lines 198-209 when the copy of some representative's condition raises.
ConvertRaise ==
    /\ pc = "convert"
    /\ \E g \in 1..Len(merged_spawns) : CopyRaises(merged_spawns[g])
    /\ pc' = "raised"
    /\ UNCHANGED <<spawn_list, i, keys, merged_spawns, final_list, first, stores>>
    /\ UNCHANGED <<hashVars, wikiVars>>

Next == Fold \/ FoldRaise \/ FoldEnd \/ Convert \/ ConvertRaise

Spec == Init /\ [][Next]_vars

\* merge_similar_spawns(merge_similar_spawns(spawn_list)): the returned list
\* is the argument of a second call, with a new defaultdict (line 142).
Remerge ==
    /\ pc = "done"
    /\ first = <<>>
    /\ first' = <<[keys |-> keys, merged_spawns |-> merged_spawns, final_list |-> final_list]>>
    /\ spawn_list' = final_list
    /\ i' = 1
    /\ keys' = <<>>
    /\ merged_spawns' = <<>>
    /\ final_list' = <<>>
    /\ pc' = "fold"
    /\ stores' = <<>>
    /\ UNCHANGED <<hashVars, wikiVars>>

NextTwice == Next \/ Remerge

SpecTwice == Init /\ [][NextTwice]_vars


(***************************************************************************)
(* make_hashable applied to the enumeration orders of one mapping.         *)
(***************************************************************************)
MaxKeys == 2

HashKeys == {"count", "id", "isRaining", "species"}
HashValues == {PyBool(TRUE), Eevee1, PyList(<<Eevee1>>)}

\* Every sequence of at most MaxKeys items with pairwise different keys.
Mappings ==
    UNION {{PyDict(items) : items \in
              {s \in [1..n -> HashKeys \X HashValues] :
                 \A p, q \in 1..n : p # q => s[p][1] # s[q][1]}} : n \in 0..MaxKeys}

SwapItems(items, p) ==
    [q \in 1..Len(items) |->
        IF q = p THEN items[p + 1] ELSE IF q = p + 1 THEN items[p] ELSE items[q]]

\* The values that differ from v by the enumeration order of one mapping
\* inside it: two neighbouring items of v or of a nested mapping swapped.
RECURSIVE Reorderings(_)
Reorderings(v) ==
    IF IsDict(v)
    THEN {PyDict(SwapItems(v[2], p)) : p \in 1..(Len(v[2]) - 1)}
         \cup UNION {{PyDict([v[2] EXCEPT ![p] = <<v[2][p][1], r>>]) :
                        r \in Reorderings(v[2][p][2])} : p \in 1..Len(v[2])}
    ELSE IF IsList(v)
    THEN UNION {{PyList([v[2] EXCEPT ![p] = r]) : r \in Reorderings(v[2][p])} :
                  p \in 1..Len(v[2])}
    ELSE {}

InitHash ==
    /\ given \in Mappings
    /\ data = given
    /\ hashed = Pending
    /\ MergeIdle
    /\ TextIdle
    /\ PageIdle
    /\ MainIdle

\* make_hashable(data) is called.
Canonicalize ==
    /\ hashed = Pending
    /\ hashed' = make_hashable(data)
    /\ UNCHANGED <<given, data>>
    /\ UNCHANGED <<mergeVars, wikiVars>>

\* The same mapping comes in another enumeration order.
Reorder ==
    /\ data' \in Reorderings(data)
    /\ hashed' = Pending
    /\ UNCHANGED given
    /\ UNCHANGED <<mergeVars, wikiVars>>

NextHash == Canonicalize \/ Reorder

SpecHash == InitHash /\ [][NextHash]_vars

(***************************************************************************)
(* Texts.  A text is a sequence of characters; "x" stands for every        *)
(* character that is neither a line break nor whitespace.                  *)
(***************************************************************************)
Chars == {"x", " ", "\n", "\r"}

\* The characters str.rstrip() and str.strip() remove.
Whitespace == {" ", "\n", "\r"}

\* str.replace('\r\n', '\n'): left to right, without a second look at what
\* it has written.
RECURSIVE replace_crlf(_)
replace_crlf(t) ==
    IF Len(t) < 2 THEN t
    ELSE IF t[1] = "\r" /\ t[2] = "\n"
    THEN <<"\n">> \o replace_crlf(SubSeq(t, 3, Len(t)))
    ELSE <<t[1]>> \o replace_crlf(Tail(t))

\* str.splitlines(): a line ends at "\r\n", "\n" or "\r"; no empty last
\* line after a final line break.
RECURSIVE SplitFrom(_, _)
SplitFrom(t, line) ==
    IF t = <<>> THEN (IF line = <<>> THEN <<>> ELSE <<line>>)
    ELSE IF Len(t) >= 2 /\ t[1] = "\r" /\ t[2] = "\n"
    THEN <<line>> \o SplitFrom(SubSeq(t, 3, Len(t)), <<>>)
    ELSE IF t[1] \in {"\r", "\n"}
    THEN <<line>> \o SplitFrom(Tail(t), <<>>)
    ELSE SplitFrom(Tail(t), Append(line, t[1]))

splitlines(t) == SplitFrom(t, <<>>)

RECURSIVE rstrip(_)
rstrip(t) ==
    IF t # <<>> /\ t[Len(t)] \in Whitespace
    THEN rstrip(SubSeq(t, 1, Len(t) - 1))
    ELSE t

RECURSIVE lstrip(_)
lstrip(t) ==
    IF t # <<>> /\ t[1] \in Whitespace THEN lstrip(Tail(t)) ELSE t

strip(t) == lstrip(rstrip(t))

\* sep.join(lines)
RECURSIVE join(_, _)
join(sep, lines) ==
    IF lines = <<>> THEN <<>>
    ELSE IF Len(lines) = 1 THEN lines[1]
    ELSE lines[1] \o sep \o join(sep, Tail(lines))

\* A plausible slip: the final .strip() is left out.
normalize_unstripped(text) ==
    LET lines == splitlines(replace_crlf(text))
    IN  join(<<"\n">>, [l \in 1..Len(lines) |-> rstrip(lines[l])])

\* Lines 436 and 437:
\* '\n'.join(line.rstrip() for line in
\*           text.replace('\r\n', '\n').splitlines()).strip()
normalize(text) ==
    LET lines == splitlines(replace_crlf(text))
    IN  strip(join(<<"\n">>, [l \in 1..Len(lines) |-> rstrip(lines[l])]))

\* Lines 438 and 439: the hex digest of the text.  No two texts as short as
\* those of the model have the same digest.
md5(text) == <<"md5", text>>

(***************************************************************************)
(* What two texts share when they differ only in the style of their line   *)
(* breaks, in whitespace at the end of a line and in whitespace around the *)
(* whole document: the lines, a line ending at "\r\n", "\n" or "\r",       *)
(* without their trailing blanks, without the empty lines at either end    *)
(* and without the blanks before the first character.                      *)
(***************************************************************************)
RECURSIVE BreakLines(_, _)
BreakLines(t, line) ==
    IF t = <<>> THEN <<line>>
    ELSE IF Len(t) >= 2 /\ t[1] = "\r" /\ t[2] = "\n"
    THEN <<line>> \o BreakLines(SubSeq(t, 3, Len(t)), <<>>)
    ELSE IF t[1] \in {"\r", "\n"}
    THEN <<line>> \o BreakLines(Tail(t), <<>>)
    ELSE BreakLines(Tail(t), Append(line, t[1]))

RECURSIVE DropEmptyFirst(_)
DropEmptyFirst(lines) ==
    IF lines # <<>> /\ lines[1] = <<>> THEN DropEmptyFirst(Tail(lines)) ELSE lines

RECURSIVE DropEmptyLast(_)
DropEmptyLast(lines) ==
    IF lines # <<>> /\ lines[Len(lines)] = <<>>
    THEN DropEmptyLast(SubSeq(lines, 1, Len(lines) - 1))
    ELSE lines

Layout(t) ==
    LET broken == BreakLines(t, <<>>)
        bare == [l \in 1..Len(broken) |-> rstrip(broken[l])]
        kept == DropEmptyLast(DropEmptyFirst(bare))
    IN  [l \in 1..Len(kept) |-> IF l = 1 THEN lstrip(kept[l]) ELSE kept[l]]

\* The texts one character away from t: one substituted, inserted, deleted.
Edits(t) ==
    {[t EXCEPT ![p] = c] : p \in 1..Len(t), c \in Chars}
    \cup {SubSeq(t, 1, p) \o <<c>> \o SubSeq(t, p + 1, Len(t)) : p \in 0..Len(t), c \in Chars}
    \cup {SubSeq(t, 1, p - 1) \o SubSeq(t, p + 1, Len(t)) : p \in 1..Len(t)}

MaxTextLen == 5

Texts(len) == UNION {[1..k -> Chars] : k \in 0..len}

Restylings(t) ==
    {r \in Edits(t) : r # t /\ Len(r) <= MaxTextLen /\ Layout(r) = Layout(t)}

InitNormalize ==
    /\ content \in Texts(MaxTextLen)
    /\ restyled = content
    /\ normalized = Pending
    /\ MergeIdle
    /\ HashIdle
    /\ PageIdle
    /\ MainIdle

\* The text comes with other line breaks or other invisible whitespace.
Restyle ==
    /\ restyled = content
    /\ normalized = Pending
    /\ restyled' \in Restylings(content)
    /\ UNCHANGED <<content, normalized>>
    /\ UNCHANGED <<mergeVars, hashVars, pageVars, mainVars>>

\* The expression of lines 436 and 437 is applied.
Normalize ==
    /\ normalized = Pending
    /\ normalized' = normalize(restyled)
    /\ UNCHANGED <<content, restyled>>
    /\ UNCHANGED <<mergeVars, hashVars, pageVars, mainVars>>

NextNormalize == Restyle \/ Normalize

SpecNormalize == InitNormalize /\ [][NextNormalize]_vars

(***************************************************************************)
(* update_wiki_page.  The remote store answers a read with the text of the *)
(* page, or raises; it answers a write by taking the text, or raises.      *)
(***************************************************************************)
Fault(code) == <<"fault", code>>

\* What wiki.page can raise: an XML-RPC fault with a faultCode, an XML-RPC
\* error without one, any other exception.
ReadErrors == {Fault(100), Fault(1), <<"protocol">>, <<"exception">>}

\* A plausible slip: no error of the read is taken for an absent page.
page_not_found_never(e) == FALSE

\* Line 430: hasattr(e, 'faultCode') and e.faultCode == 100
page_not_found(e) == e[1] = "fault" /\ e[2] = 100

\* A plausible slip: the texts are compared as they are.
content_changed_raw(current, new) == md5(new) # md5(current)

\* A plausible slip: only the new text is normalized.
content_changed_half(current, new) == md5(normalize(new)) # md5(current)

\* Lines 436-441: new_content_hash != current_content_hash
content_changed(current, new) == md5(normalize(new)) # md5(normalize(current))

\* Line 427: wiki.page(page_name) or "" returns.
ReadPage ==
    /\ pcPage = "read"
    /\ current_content_str' = (IF store[page_name] = NoPage THEN <<>> ELSE store[page_name])
    /\ reads' = Append(reads, [page |-> page_name, outcome |-> <<"text">>])
    /\ pcPage' = "compare"
    /\ UNCHANGED <<store, page_name, new_content, result, puts>>
    /\ UNCHANGED <<mergeVars, hashVars, textVars, mainVars>>

\* Lines 429-432: the read raises and the error is taken for an absent page.
\* The store raises fault 100 only for a page it does not have.
ReadPageNotFound ==
    /\ pcPage = "read"
    /\ \E e \in ReadErrors :
          /\ e = Fault(100) => store[page_name] = NoPage
          /\ page_not_found(e)
          /\ reads' = Append(reads, [page |-> page_name, outcome |-> e])
    /\ current_content_str' = <<>>
    /\ pcPage' = "compare"
    /\ UNCHANGED <<store, page_name, new_content, result, puts>>
    /\ UNCHANGED <<mergeVars, hashVars, textVars, mainVars>>

\* Lines 433-434: the read raises any other error; return False.
ReadPageFails ==
    /\ pcPage = "read"
    /\ \E e \in ReadErrors :
          /\ e = Fault(100) => store[page_name] = NoPage
          /\ ~page_not_found(e)
          /\ reads' = Append(reads, [page |-> page_name, outcome |-> e])
    /\ result' = FALSE
    /\ pcPage' = "returned"
    /\ UNCHANGED <<store, page_name, new_content, current_content_str, puts>>
    /\ UNCHANGED <<mergeVars, hashVars, textVars, mainVars>>

\* Lines 449-451: the fingerprints are equal; return True.
NoChange ==
    /\ pcPage = "compare"
    /\ ~content_changed(current_content_str, new_content)
    /\ result' = TRUE
    /\ pcPage' = "returned"
    /\ UNCHANGED <<store, page_name, new_content, current_content_str, reads, puts>>
    /\ UNCHANGED <<mergeVars, hashVars, textVars, mainVars>>

\* Lines 441-447: put_page succeeds; return True.
PutPage ==
    /\ pcPage = "compare"
    /\ content_changed(current_content_str, new_content)
    /\ puts' = Append(puts, [page |-> page_name, text |-> new_content, ok |-> TRUE])
    /\ store' = [store EXCEPT ![page_name] = new_content]
    /\ result' = TRUE
    /\ pcPage' = "returned"
    /\ UNCHANGED <<page_name, new_content, current_content_str, reads>>
    /\ UNCHANGED <<mergeVars, hashVars, textVars, mainVars>>

\* Lines 441-448: put_page raises; return False.
PutPageFails ==
    /\ pcPage = "compare"
    /\ content_changed(current_content_str, new_content)
    /\ puts' = Append(puts, [page |-> page_name, text |-> new_content, ok |-> FALSE])
    /\ result' = FALSE
    /\ pcPage' = "returned"
    /\ UNCHANGED <<store, page_name, new_content, current_content_str, reads>>
    /\ UNCHANGED <<mergeVars, hashVars, textVars, mainVars>>

MaxPageLen == 2

InitPage ==
    /\ page_name = "ns:gen1:eevee"
    /\ store \in [{page_name} -> {NoPage} \cup Texts(MaxPageLen)]
    /\ new_content \in Texts(MaxPageLen)
    /\ current_content_str = <<>>
    /\ pcPage = "read"
    /\ result = Pending
    /\ reads = <<>>
    /\ puts = <<>>
    /\ MergeIdle
    /\ HashIdle
    /\ TextIdle
    /\ MainIdle

NextPage ==
    ReadPage \/ ReadPageNotFound \/ ReadPageFails \/ NoChange \/ PutPage \/ PutPageFails

SpecPage == InitPage /\ [][NextPage]_vars

MaxCalls == 2

\* A later run calls update_wiki_page for the same page with the same
\* content (line 530): the locals are new, the store is as it was left.
CallAgain ==
    /\ pcPage = "returned"
    /\ Len(reads) < MaxCalls
    /\ current_content_str' = <<>>
    /\ result' = Pending
    /\ pcPage' = "read"
    /\ UNCHANGED <<store, page_name, new_content, reads, puts>>
    /\ UNCHANGED <<mergeVars, hashVars, textVars, mainVars>>

NextRuns == NextPage \/ CallAgain

SpecRuns == InitPage /\ [][NextRuns]_vars

(***************************************************************************)
(* main.  The inputs are what main has loaded when it reaches the login:   *)
(* the credentials, the names of the pokedex table, the names with spawn   *)
(* records in the order of the dict, and the remote pages.                 *)
(***************************************************************************)
Subjects == {"eevee", "pikachu"}

\* The dict pokemon_spawns has every name once.
Orders ==
    {<<>>} \cup {<<a>> : a \in Subjects}
    \cup {o \in Subjects \X Subjects : o[1] # o[2]}

Namespace == "ns"

\* What wiki_login returns when it has connected.
Client == <<"client">>

\* Lines 399-405; every entry of the pokedex table has generation 1.
get_wiki_page_name(pokemon_name, pokedex, base_namespace) ==
    base_namespace \o ":gen"
        \o (IF pokemon_name \in pokedex THEN "1" ELSE "unknown")
        \o ":" \o pokemon_name

\* Lines 212-397 when nothing raises: the document of the subject, a text
\* of several lines that begins and ends with a visible character.
generate_wiki_content(pokemon_name) ==
    IF pokemon_name = "eevee" THEN <<"x", "\n", "x">> ELSE <<"x", "x", "\n", "x">>

PageNames == {get_wiki_page_name(name, Subjects, Namespace) : name \in Subjects}

\* A remote page is absent, holds the document of a subject as the store
\* keeps it (with "\r\n" at its end), or holds an older text.
StoredPages ==
    {NoPage, <<"x">>} \cup {generate_wiki_content(name) \o <<"\r", "\n">> : name \in Subjects}

InitMain ==
    /\ credentials \in BOOLEAN
    /\ pokedex_data \in SUBSET Subjects
    /\ pokemon_spawns \in Orders
    /\ raising \in SUBSET Subjects
    /\ store \in [PageNames -> StoredPages]
    /\ wiki = NoWiki
    /\ cursor = 1
    /\ success_count = 0
    /\ fail_count = 0
    /\ processed_count = 0
    /\ published = {}
    /\ pcMain = "start"
    /\ exit_status = Pending
    /\ page_name = ""
    /\ new_content = <<>>
    /\ current_content_str = <<>>
    /\ pcPage = "idle"
    /\ result = Pending
    /\ reads = <<>>
    /\ puts = <<>>
    /\ MergeIdle
    /\ HashIdle
    /\ TextIdle

\* Line 469: parser.error prints the usage and ends the process with
\* status 2.
MissingCredentials ==
    /\ pcMain = "start"
    /\ ~credentials
    /\ exit_status' = 2
    /\ pcMain' = "exited"
    /\ UNCHANGED <<credentials, pokedex_data, pokemon_spawns, raising, wiki, cursor,
                   success_count, fail_count, processed_count, published>>
    /\ UNCHANGED <<mergeVars, hashVars, textVars, pageVars>>

\* Lines 484 and 508: no pokedex data or no spawn data; main returns.
NothingToDo ==
    /\ pcMain = "start"
    /\ credentials
    /\ pokedex_data = {} \/ pokemon_spawns = <<>>
    /\ exit_status' = 0
    /\ pcMain' = "exited"
    /\ UNCHANGED <<credentials, pokedex_data, pokemon_spawns, raising, wiki, cursor,
                   success_count, fail_count, processed_count, published>>
    /\ UNCHANGED <<mergeVars, hashVars, textVars, pageVars>>

\* A plausible slip: the failed login is logged and the loop is entered.
LoginFailsContinues ==
    /\ pcMain = "start"
    /\ credentials
    /\ pokedex_data # {}
    /\ pokemon_spawns # <<>>
    /\ wiki' = PyNone
    /\ pcMain' = "loop"
    /\ UNCHANGED <<credentials, pokedex_data, pokemon_spawns, raising, cursor,
                   success_count, fail_count, processed_count, published, exit_status>>
    /\ UNCHANGED <<mergeVars, hashVars, textVars, pageVars>>

\* Lines 511-512 with lines 413-421: the connection or the version call
\* raises, wiki_login returns None and main ends with exit(1).
LoginFails ==
    /\ pcMain = "start"
    /\ credentials
    /\ pokedex_data # {}
    /\ pokemon_spawns # <<>>
    /\ wiki' = PyNone
    /\ exit_status' = 1
    /\ pcMain' = "exited"
    /\ UNCHANGED <<credentials, pokedex_data, pokemon_spawns, raising, cursor,
                   success_count, fail_count, processed_count, published>>
    /\ UNCHANGED <<mergeVars, hashVars, textVars, pageVars>>

\* Lines 511-515 with lines 413-418: wiki_login returns the client.
LoginSucceeds ==
    /\ pcMain = "start"
    /\ credentials
    /\ pokedex_data # {}
    /\ pokemon_spawns # <<>>
    /\ wiki' = Client
    /\ pcMain' = "loop"
    /\ UNCHANGED <<credentials, pokedex_data, pokemon_spawns, raising, cursor,
                   success_count, fail_count, processed_count, published, exit_status>>
    /\ UNCHANGED <<mergeVars, hashVars, textVars, pageVars>>

\* A plausible slip: a subject without pokedex entry counts as failed.
SkipCountsFailed ==
    /\ pcMain = "loop"
    /\ cursor <= Len(pokemon_spawns)
    /\ pokemon_spawns[cursor] \notin pokedex_data
    /\ processed_count' = processed_count + 1
    /\ fail_count' = fail_count + 1
    /\ cursor' = cursor + 1
    /\ UNCHANGED <<credentials, pokedex_data, pokemon_spawns, raising, wiki,
                   success_count, published, pcMain, exit_status>>
    /\ UNCHANGED <<mergeVars, hashVars, textVars, pageVars>>

\* Lines 517-523: the name is not in the pokedex table; continue.
Skip ==
    /\ pcMain = "loop"
    /\ cursor <= Len(pokemon_spawns)
    /\ pokemon_spawns[cursor] \notin pokedex_data
    /\ processed_count' = processed_count + 1
    /\ cursor' = cursor + 1
    /\ UNCHANGED <<credentials, pokedex_data, pokemon_spawns, raising, wiki,
                   success_count, fail_count, published, pcMain, exit_status>>
    /\ UNCHANGED <<mergeVars, hashVars, textVars, pageVars>>

\* Lines 517-529 and 534-536: generate_wiki_content raises.
RenderRaises ==
    /\ pcMain = "loop"
    /\ cursor <= Len(pokemon_spawns)
    /\ pokemon_spawns[cursor] \in pokedex_data
    /\ pokemon_spawns[cursor] \in raising
    /\ processed_count' = processed_count + 1
    /\ fail_count' = fail_count + 1
    /\ cursor' = cursor + 1
    /\ UNCHANGED <<credentials, pokedex_data, pokemon_spawns, raising, wiki,
                   success_count, published, pcMain, exit_status>>
    /\ UNCHANGED <<mergeVars, hashVars, textVars, pageVars>>

\* Lines 517-530: the document is rendered and update_wiki_page is called.
Publish ==
    /\ pcMain = "loop"
    /\ cursor <= Len(pokemon_spawns)
    /\ pokemon_spawns[cursor] \in pokedex_data
    /\ pokemon_spawns[cursor] \notin raising
    /\ processed_count' = processed_count + 1
    /\ published' = published \cup {pokemon_spawns[cursor]}
    /\ page_name' = get_wiki_page_name(pokemon_spawns[cursor], pokedex_data, Namespace)
    /\ new_content' = generate_wiki_content(pokemon_spawns[cursor])
    /\ current_content_str' = <<>>
    /\ result' = Pending
    /\ pcPage' = "read"
    /\ pcMain' = "update"
    /\ UNCHANGED <<credentials, pokedex_data, pokemon_spawns, raising, wiki, cursor,
                   success_count, fail_count, exit_status>>
    /\ UNCHANGED <<store, reads, puts>>
    /\ UNCHANGED <<mergeVars, hashVars, textVars>>

\* A plausible slip: the loop is left at the first failed page.
CountAndStop ==
    /\ pcMain = "update"
    /\ pcPage = "returned"
    /\ success_count' = success_count + (IF result THEN 1 ELSE 0)
    /\ fail_count' = fail_count + (IF result THEN 0 ELSE 1)
    /\ cursor' = (IF result THEN cursor + 1 ELSE Len(pokemon_spawns) + 1)
    /\ pcPage' = "idle"
    /\ pcMain' = "loop"
    /\ UNCHANGED <<credentials, pokedex_data, pokemon_spawns, raising, wiki,
                   processed_count, published, exit_status>>
    /\ UNCHANGED <<store, page_name, new_content, current_content_str, result, reads, puts>>
    /\ UNCHANGED <<mergeVars, hashVars, textVars>>

\* Lines 530-533: update_wiki_page has returned; the page is counted and the
\* loop goes to the next subject.
Count ==
    /\ pcMain = "update"
    /\ pcPage = "returned"
    /\ success_count' = success_count + (IF result THEN 1 ELSE 0)
    /\ fail_count' = fail_count + (IF result THEN 0 ELSE 1)
    /\ cursor' = cursor + 1
    /\ pcPage' = "idle"
    /\ pcMain' = "loop"
    /\ UNCHANGED <<credentials, pokedex_data, pokemon_spawns, raising, wiki,
                   processed_count, published, exit_status>>
    /\ UNCHANGED <<store, page_name, new_content, current_content_str, result, reads, puts>>
    /\ UNCHANGED <<mergeVars, hashVars, textVars>>

\* A plausible slip: every subject without a successful page makes the
\* exit status 1.
FinishStrict ==
    /\ pcMain = "loop"
    /\ cursor > Len(pokemon_spawns)
    /\ exit_status' = (IF success_count < processed_count THEN 1 ELSE 0)
    /\ pcMain' = "exited"
    /\ UNCHANGED <<credentials, pokedex_data, pokemon_spawns, raising, wiki, cursor,
                   success_count, fail_count, processed_count, published>>
    /\ UNCHANGED <<mergeVars, hashVars, textVars, pageVars>>

\* Lines 538-540: the loop is exhausted; exit(1) if fail_count > 0, else
\* main returns and the process ends with status 0.
Finish ==
    /\ pcMain = "loop"
    /\ cursor > Len(pokemon_spawns)
    /\ exit_status' = (IF fail_count > 0 THEN 1 ELSE 0)
    /\ pcMain' = "exited"
    /\ UNCHANGED <<credentials, pokedex_data, pokemon_spawns, raising, wiki, cursor,
                   success_count, fail_count, processed_count, published>>
    /\ UNCHANGED <<mergeVars, hashVars, textVars, pageVars>>

NextMain ==
    \/ MissingCredentials \/ NothingToDo \/ LoginFails \/ LoginSucceeds
    \/ Skip \/ RenderRaises \/ Publish \/ Count \/ Finish
    \/ ReadPage \/ ReadPageNotFound \/ ReadPageFails \/ NoChange \/ PutPage \/ PutPageFails

SpecMain == InitMain /\ [][NextMain]_vars

(***************************************************************************)
(* Vocabulary of the properties.                                           *)
(***************************************************************************)
\* Python's == on JSON values: dicts compare as mappings, lists as sequences.
RECURSIVE PyEqual(_, _)
PyEqual(x, y) ==
    IF IsDict(x) /\ IsDict(y)
    THEN /\ Len(x[2]) = Len(y[2])
         /\ \A j \in 1..Len(x[2]) :
              /\ DictHas(y, x[2][j][1])
              /\ PyEqual(x[2][j][2], DictGet(y, x[2][j][1], PyNone))
    ELSE IF IsList(x) /\ IsList(y)
    THEN /\ Len(x[2]) = Len(y[2])
         /\ \A j \in 1..Len(x[2]) : PyEqual(x[2][j], y[2][j])
    ELSE x = y

\* The condition mapping of a record, empty when it has none.
ConditionMapping(spawn) ==
    LET c == DictGet(spawn, "condition", EmptyDict)
    IN  IF IsDict(c) THEN c ELSE EmptyDict

\* The record with condition.biomes left out.
ExceptBiomes(spawn) ==
    DictSet(spawn, "condition", PyDict(SelectSeq(ConditionMapping(spawn)[2], NotBiomes)))

\* Two records agree on every attribute except condition.biomes.
AgreeExceptBiomes(r1, r2) == PyEqual(ExceptBiomes(r1), ExceptBiomes(r2))

\* Every biomes value a record carries: the elements of its biomes list, or
\* its single biomes value.
BiomesValues(spawn) ==
    LET b == DictGet(ConditionMapping(spawn), "biomes", EmptyList)
    IN  IF IsList(b) THEN Range(b[2]) ELSE {b}

NonEmptyBiomesValues(spawn) == {b \in BiomesValues(spawn) : b # PyStr("")}

\* condition.biomes of an output record
OutBiomes(out) == DictGet(DictGet(out, "condition", EmptyDict), "biomes", PyNone)

\* seq is ascending and free of duplicates
Ascending(seq) ==
    \A p, q \in 1..Len(seq) : p < q => StrRank(seq[p][2]) < StrRank(seq[q][2])

Returned == pc = "done"

\* The record took the fallback path of lines 181-183.
FellBack(j) == keys[j][1] = "str"

\* The output record of the group of input record j.
OutputOf(j) == final_list[GroupOf(merged_spawns, keys[j])]

AllInputs == 1..Len(spawn_list)

(***************************************************************************)
(* C1.  Records that agree on every attribute except condition.biomes are  *)
(* merged into exactly one output record whose biomes is the ascending,    *)
(* duplicate-free union of their biomes values.                            *)
(***************************************************************************)
\* The claim as stated: for any such records, one output record that holds
\* every biomes value of every input record.
C1_AsStated ==
    (/\ Returned
     /\ Len(spawn_list) >= 1
     /\ \A j, k \in AllInputs : AgreeExceptBiomes(spawn_list[j], spawn_list[k]))
    => /\ Len(final_list) = 1
       /\ IsList(OutBiomes(final_list[1]))
       /\ Ascending(OutBiomes(final_list[1])[2])
       /\ Range(OutBiomes(final_list[1])[2]) = UNION {BiomesValues(spawn_list[j]) : j \in AllInputs}

\* C1 as amended: when no record took the fallback path, one output record
\* that holds the non-empty biomes values, ascending and without duplicates.
C1_MergedUnion ==
    (/\ Returned
     /\ Len(spawn_list) >= 1
     /\ \A j \in AllInputs : ~FellBack(j)
     /\ \A j, k \in AllInputs : AgreeExceptBiomes(spawn_list[j], spawn_list[k]))
    => /\ Len(final_list) = 1
       /\ IsList(OutBiomes(final_list[1]))
       /\ Ascending(OutBiomes(final_list[1])[2])
       /\ Range(OutBiomes(final_list[1])[2])
            = UNION {NonEmptyBiomesValues(spawn_list[j]) : j \in AllInputs}

\* The scenario [forest], [plains], [forest, swamp] has been merged.
C1_Witness ==
    /\ Returned
    /\ Len(spawn_list) = 3
    /\ \A j, k \in AllInputs : AgreeExceptBiomes(spawn_list[j], spawn_list[k])
    /\ BiomesValues(spawn_list[1]) = {Forest}
    /\ BiomesValues(spawn_list[2]) = {Plains}
    /\ BiomesValues(spawn_list[3]) = {Forest, Swamp}
    /\ Len(final_list) = 1
    /\ OutBiomes(final_list[1]) = PyList(<<Forest, Plains, Swamp>>)

(***************************************************************************)
(* C2.  Every biomes value of an input record appears in the biomes of     *)
(* exactly one output record.                                              *)
(***************************************************************************)
\* The claim as stated.
C2_AsStated ==
    Returned =>
        \A j \in AllInputs : \A b \in BiomesValues(spawn_list[j]) :
            Cardinality({g \in 1..Len(final_list) :
                           b \in Range(OutBiomes(final_list[g])[2])}) = 1

\* C2 as amended: every non-empty biomes value of a record appears in the
\* output record of that record's group, and an output record holds only
\* non-empty biomes values of the records of its group.
C2_InOwnGroup ==
    Returned =>
        /\ \A j \in AllInputs : 
              NonEmptyBiomesValues(spawn_list[j]) \subseteq Range(OutBiomes(OutputOf(j))[2])
        /\ \A g \in 1..Len(final_list) :
              Range(OutBiomes(final_list[g])[2]) =
                  UNION {NonEmptyBiomesValues(spawn_list[j]) :
                           j \in {k \in AllInputs : keys[k] = merged_spawns[g].key}}

\* Two groups were returned and one biomes value is in both of them.
C2_Witness ==
    /\ Returned
    /\ Len(final_list) = 2
    /\ \E b \in BiomesValues(spawn_list[1]) :
         /\ b \in Range(OutBiomes(final_list[1])[2])
         /\ b \in Range(OutBiomes(final_list[2])[2])

(***************************************************************************)
(* C3.  The number of returned records equals the number of distinct keys  *)
(* among the inputs, and no two output records have the same key.          *)
(***************************************************************************)
C3_OneRecordPerKey ==
    Returned =>
        /\ Len(final_list) = Cardinality({keys[j] : j \in AllInputs})
        /\ Len(final_list) <= Len(spawn_list)
        /\ Len(final_list) = Len(merged_spawns)
        /\ \A g, h \in 1..Len(final_list) :
              g # h => merged_spawns[g].key # merged_spawns[h].key
        /\ \A g \in 1..Len(final_list) :
              merged_spawns[g].key[1] = "tuple" =>
                  key_tuple(final_list[g], UrandomHex(g)) = merged_spawns[g].key

\* Three records were merged into two groups.
C3_Witness ==
    /\ Returned
    /\ Len(spawn_list) = 3
    /\ Len(final_list) = 2

(***************************************************************************)
(* C4.  Two records identical except for a non-accumulating condition key  *)
(* that one of them lacks get different keys and are returned as two       *)
(* output records.                                                         *)
(***************************************************************************)
\* r2 is r1 with one more condition key, which is not biomes.
ExtraConditionKey(r1, r2) ==
    \E it \in Range(ConditionMapping(r2)[2]) :
        LET Others(x) == x[1] # it[1]
        IN  /\ it[1] # "biomes"
            /\ DictHas(r1, "condition")
            /\ ~DictHas(ConditionMapping(r1), it[1])
            /\ PyEqual(r1, DictSet(r2, "condition",
                                   PyDict(SelectSeq(ConditionMapping(r2)[2], Others))))

\* The claim as stated.
C4_AsStated ==
    Returned =>
        \A j, k \in AllInputs :
            ExtraConditionKey(spawn_list[j], spawn_list[k]) =>
                /\ keys[j] # keys[k]
                /\ GroupOf(merged_spawns, keys[j]) # GroupOf(merged_spawns, keys[k])

(***************************************************************************)
(* C5.  Two records that differ only in the enumeration order of the       *)
(* sub-records of a requirement list get equal keys and are merged.        *)
(***************************************************************************)
NotRequirement(it) == it[1] \notin {"pokemon_in_party_requirement", "item_requirement"}

WithoutRequirements(spawn) ==
    DictSet(spawn, "condition", PyDict(SelectSeq(ConditionMapping(spawn)[2], NotRequirement)))

\* l2 holds the sub-records of l1, each as often, in any order.
PermutationOf(l1, l2) ==
    /\ Len(l1) = Len(l2)
    /\ \A x \in Range(l1) :
         Cardinality({p \in 1..Len(l1) : PyEqual(l1[p], x)})
           = Cardinality({p \in 1..Len(l2) : PyEqual(l2[p], x)})

DifferOnlyInSubRecordOrder(r1, r2) ==
    /\ PyEqual(WithoutRequirements(r1), WithoutRequirements(r2))
    /\ \A f \in {"pokemon_in_party_requirement", "item_requirement"} :
         LET v1 == DictGet(ConditionMapping(r1), f, Absent)
             v2 == DictGet(ConditionMapping(r2), f, Absent)
         IN  \/ v1 = Absent /\ v2 = Absent
             \/ /\ v1 # Absent /\ v2 # Absent
                /\ IsList(v1) /\ IsList(v2)
                /\ PermutationOf(v1[2], v2[2])

\* The claim as stated.
C5_AsStated ==
    \A j, k \in 1..Len(keys) :
        DifferOnlyInSubRecordOrder(spawn_list[j], spawn_list[k]) => keys[j] = keys[k]

(***************************************************************************)
(* C6.  make_hashable returns equal values for every enumeration order of  *)
(* the items of a mapping and of the mappings nested in it.                *)
(***************************************************************************)
C6_OrderIndependent ==
    hashed # Pending => hashed = make_hashable(given)

\* A mapping was hashed in an enumeration order other than the given one.
C6_Witness ==
    /\ hashed # Pending
    /\ data # given
    /\ Len(given[2]) >= 2
    /\ given[2][1] # data[2][1]
    /\ hashed = make_hashable(given)

(***************************************************************************)
(* C7.  When building the key of a record raises, merge_similar_spawns     *)
(* still returns and the record is in the output as its own record.        *)
(***************************************************************************)
\* The claim as stated: the loop is never left by an exception, and a record
\* on the fallback path is the only record of its group.
C7_AsStated ==
    /\ ~(pc = "raised" /\ i <= Len(spawn_list))
    /\ Returned =>
         \A j \in AllInputs :
            FellBack(j) => {k \in AllInputs : keys[k] = keys[j]} = {j}

(***************************************************************************)
(* C8.  A record on the fallback path is never in the group of another     *)
(* record.                                                                 *)
(***************************************************************************)
\* The claim as stated.
C8_AsStated ==
    \A j, k \in 1..Len(keys) : (j # k /\ FellBack(j)) => keys[j] # keys[k]

(***************************************************************************)
(* C9.  The representative of a group is the first input record with the   *)
(* group's key, is never replaced, and the output record equals it in      *)
(* every attribute other than condition.biomes.                            *)
(***************************************************************************)
FirstWithKey(key) ==
    CHOOSE j \in 1..Len(keys) : keys[j] = key /\ \A k \in 1..(j - 1) : keys[k] # key

C9_FirstSeenRepresentative ==
    /\ \A g \in 1..Len(merged_spawns) :
          merged_spawns[g].spawns = <<spawn_list[FirstWithKey(merged_spawns[g].key)]>>
    /\ Returned =>
          /\ Len(final_list) = Len(merged_spawns)
          /\ \A g \in 1..Len(final_list) :
                PyEqual(ExceptBiomes(final_list[g]),
                        ExceptBiomes(spawn_list[FirstWithKey(merged_spawns[g].key)]))

\* A group was returned whose second record differs from the first in an
\* attribute that is not part of the key.
C9_Witness ==
    /\ Returned
    /\ \E j, k \in AllInputs :
         /\ j < k
         /\ keys[j] = keys[k]
         /\ ~AgreeExceptBiomes(spawn_list[j], spawn_list[k])

(***************************************************************************)
(* C10.  The biomes set of a group strictly grows with every record folded *)
(* into the group.                                                         *)
(***************************************************************************)
BiomesAt(groups, key) ==
    IF \E g \in 1..Len(groups) : groups[g].key = key
    THEN groups[CHOOSE g \in 1..Len(groups) : groups[g].key = key].biomes
    ELSE {}

\* The claim as stated.
C10_AsStated ==
    [][Len(keys') = Len(keys) + 1 =>
         LET key == keys'[Len(keys')]
         IN  /\ BiomesAt(merged_spawns, key) \subseteq BiomesAt(merged_spawns', key)
             /\ BiomesAt(merged_spawns, key) # BiomesAt(merged_spawns', key)]_vars

\* C10 as amended: no group ever loses a biomes value, and after a record is
\* folded into a group the set of the group holds what it held before and
\* the record's non-empty biomes values; it grows exactly when one of
\* these is new to it.
C10_NeverShrinks ==
    [][Len(keys') = Len(keys) + 1 =>
         LET key == keys'[Len(keys')]
         IN  /\ BiomesAt(merged_spawns', key)
                  = BiomesAt(merged_spawns, key) \cup NonEmptyBiomesValues(spawn_list[i])
             /\ \A g \in 1..Len(merged_spawns) :
                  /\ merged_spawns'[g].key = merged_spawns[g].key
                  /\ merged_spawns[g].biomes \subseteq merged_spawns'[g].biomes]_vars

\* A record was folded into a group that held all its biomes already.
C10_Witness ==
    \E j, k \in 1..Len(keys) :
        /\ j < k
        /\ keys[j] = keys[k]
        /\ NonEmptyBiomesValues(spawn_list[k]) # {}
        /\ NonEmptyBiomesValues(spawn_list[k]) \subseteq NonEmptyBiomesValues(spawn_list[j])
        /\ merged_spawns[GroupOf(merged_spawns, keys[j])].biomes
             = UNION {NonEmptyBiomesValues(spawn_list[m]) :
                        m \in {n \in 1..Len(keys) : keys[n] = keys[j]}}

(***************************************************************************)
(* C11.  As stated: applied to its own output, the merge yields the same   *)
(* set of keys and, for each key, the same biomes as the first             *)
(* application.                                                            *)
(***************************************************************************)
Reapplied == pc = "done" /\ first # <<>>

GroupKeys(groups) == {groups[g].key : g \in 1..Len(groups)}

C11_AsStated ==
    Reapplied =>
        /\ GroupKeys(merged_spawns) = GroupKeys(first[1].merged_spawns)
        /\ \A g \in 1..Len(merged_spawns) :
              \A h \in 1..Len(first[1].merged_spawns) :
                  merged_spawns[g].key = first[1].merged_spawns[h].key =>
                      merged_spawns[g].biomes = first[1].merged_spawns[h].biomes

\* The key of this record is the random token of line 183.
RandomKey(spawn) ==
    key_tuple(spawn, UrandomHex(0)) # key_tuple(spawn, UrandomHex(1))

(***************************************************************************)
(* C11.  Amended: the second application never raises and returns the      *)
(* list the first one returned, group by group with the same biomes and    *)
(* the same key, except that a group whose key is a random token gets a    *)
(* token no group of the first application had.                            *)
(***************************************************************************)
C11_Idempotent ==
    /\ first # <<>> => pc # "raised"
    /\ Reapplied =>
        /\ final_list = first[1].final_list
        /\ Len(merged_spawns) = Len(first[1].merged_spawns)
        /\ \A g \in 1..Len(merged_spawns) :
              /\ merged_spawns[g].biomes = first[1].merged_spawns[g].biomes
              /\ IF RandomKey(spawn_list[g])
                 THEN merged_spawns[g].key \notin GroupKeys(first[1].merged_spawns)
                 ELSE merged_spawns[g].key = first[1].merged_spawns[g].key

\* The first application merged three records into two groups, one of them
\* with two biomes, and the second application has returned.
C11_Witness ==
    /\ Reapplied
    /\ Len(first[1].keys) = 3
    /\ Len(final_list) = 2
    /\ \E g \in 1..2 : Cardinality(merged_spawns[g].biomes) = 2
(***************************************************************************)
(* C14.  The normalization is idempotent: normalizing a normalized text    *)
(* gives that text again; a normalized text has no "\r", no whitespace at  *)
(* the end of a line and none at either end.                               *)
(***************************************************************************)
C14_Idempotent ==
    normalized # Pending =>
        /\ normalize(normalized) = normalized
        /\ normalize(normalize(restyled)) = normalize(restyled)
        /\ \A p \in 1..Len(normalized) :
              /\ normalized[p] # "\r"
              /\ normalized[p] \in Whitespace => p \notin {1, Len(normalized)}
              /\ normalized[p] = " " => normalized[p + 1] # "\n"

\* A text with "\r\n", a blank at the end of a line and a blank line at the
\* end was normalized to two lines.
C14_Witness ==
    /\ normalized = <<"x", "\n", "x">>
    /\ restyled = <<"x", " ", "\r", "\n", "x">>

(***************************************************************************)
(* C15.  As stated: two texts that differ only in line-break style, in     *)
(* whitespace at the end of a line or in whitespace around the document    *)
(* normalize to the same string and have the same fingerprint.             *)
(***************************************************************************)
C15_AsStated ==
    (normalized # Pending /\ Layout(restyled) = Layout(content)) =>
        /\ normalized = normalize(content)
        /\ md5(normalized) = md5(normalize(content))
(***************************************************************************)
(* C12.  update_wiki_page calls put_page if and only if it has read the    *)
(* existing text and the fingerprint of the normalized existing text       *)
(* differs from that of the normalized new text; when the two are equal    *)
(* after normalization nothing is written and the call returns True.       *)
(***************************************************************************)
ReadGaveText ==
    /\ reads # <<>>
    /\ \/ reads[Len(reads)].outcome = <<"text">>
       \/ reads[Len(reads)].outcome = Fault(100)

C12_WriteIffChanged ==
    /\ pcPage = "compare" =>
          current_content_str = (IF store[page_name] = NoPage THEN <<>> ELSE store[page_name])
    /\ pcPage = "returned" =>
          /\ puts # <<>> <=>
                /\ ReadGaveText
                /\ md5(normalize(current_content_str)) # md5(normalize(new_content))
          /\ (ReadGaveText /\ normalize(current_content_str) = normalize(new_content)) =>
                (puts = <<>> /\ result = TRUE)
          /\ \A w \in 1..Len(puts) : puts[w].page = page_name /\ puts[w].text = new_content
          /\ Len(puts) <= 1

\* The existing page and the new text are different texts with the same
\* normalization; the call has returned True without a write.
C12_Witness ==
    /\ pcPage = "returned"
    /\ result = TRUE
    /\ puts = <<>>
    /\ store[page_name] = <<"x", "\r">>
    /\ new_content = <<" ", "x">>

(***************************************************************************)
(* C13.  A read that raises page-not-found (fault 100) is treated like an  *)
(* existing page whose text is empty and is never a failure: nothing is    *)
(* written when the new text normalizes to the empty text, the new text is *)
(* written otherwise, and the call fails only if that write raises.        *)
(***************************************************************************)
C13_AbsentIsEmpty ==
    (pcPage = "returned" /\ reads # <<>> /\ reads[Len(reads)].outcome = Fault(100)) =>
        /\ current_content_str = <<>>
        /\ normalize(new_content) = <<>> => (puts = <<>> /\ result = TRUE)
        /\ normalize(new_content) # <<>> =>
              /\ Len(puts) = 1
              /\ puts[1].text = new_content
              /\ result = puts[1].ok
        /\ new_content = <<"x">> => puts # <<>>

\* The page was absent, the read raised fault 100, the new text "x" was
\* written and the call returned True.
C13_Witness ==
    /\ pcPage = "returned"
    /\ reads = <<[page |-> page_name, outcome |-> Fault(100)]>>
    /\ new_content = <<"x">>
    /\ puts = <<[page |-> page_name, text |-> <<"x">>, ok |-> TRUE]>>
    /\ store[page_name] = <<"x">>
    /\ result = TRUE
(***************************************************************************)
(* The failures of a run of main, read off what happened: the reads that   *)
(* raised another error than page-not-found, the writes that raised, the   *)
(* renderings that raised.                                                 *)
(***************************************************************************)
Visited == 1..(cursor - 1)

FailedReads == {r \in 1..Len(reads) : reads[r].outcome \notin {<<"text">>, Fault(100)}}

FailedPuts == {w \in 1..Len(puts) : ~puts[w].ok}

FailedRenders == {j \in Visited : pokemon_spawns[j] \in pokedex_data \cap raising}

Skipped == {j \in Visited : pokemon_spawns[j] \notin pokedex_data}

Failures == Cardinality(FailedReads) + Cardinality(FailedPuts) + Cardinality(FailedRenders)

BetweenPages == pcMain \in {"loop", "exited"} /\ wiki = Client

LoopFinished == pcMain = "exited" /\ wiki = Client

(***************************************************************************)
(* C16.  A read or a write that raises another error than page-not-found,  *)
(* or a rendering that raises, makes the page count as failed; a page      *)
(* whose read failed is not written; the loop goes on, so that at the end  *)
(* every subject has been processed.                                       *)
(***************************************************************************)
C16_FailedPageCountedLoopGoesOn ==
    /\ BetweenPages => fail_count = Failures
    /\ \A r \in FailedReads : \A w \in 1..Len(puts) : puts[w].page # reads[r].page
    /\ pcMain = "loop" => processed_count = cursor - 1
    /\ LoopFinished =>
          /\ processed_count = Len(pokemon_spawns)
          /\ \A j \in 1..Len(pokemon_spawns) :
                \/ j \in Skipped
                \/ j \in FailedRenders
                \/ \E r \in 1..Len(reads) :
                      reads[r].page = get_wiki_page_name(pokemon_spawns[j], pokedex_data, Namespace)

\* The read of the first subject's page failed; the second subject's page
\* was read and written after that, and the run ended with one failure.
C16_Witness ==
    /\ LoopFinished
    /\ Len(pokemon_spawns) = 2
    /\ Len(reads) = 2
    /\ reads[1].outcome = Fault(1)
    /\ Len(puts) = 1
    /\ puts[1].page = reads[2].page
    /\ puts[1].ok
    /\ fail_count = 1
    /\ success_count = 1

(***************************************************************************)
(* C17.  When the page loop has finished, the exit status is non-zero if   *)
(* and only if at least one page was counted as failed; skipped and        *)
(* unchanged pages are not counted as failed.                              *)
(***************************************************************************)
C17_ExitStatus ==
    LoopFinished =>
        /\ exit_status \in {0, 1}
        /\ exit_status # 0 <=> fail_count > 0
        /\ fail_count > 0 <=> Failures > 0
        /\ success_count + fail_count + Cardinality(Skipped) = Len(pokemon_spawns)

\* One subject was skipped, the page of the other was left unchanged, and
\* the process ended with status 0.
C17_Witness ==
    /\ LoopFinished
    /\ exit_status = 0
    /\ Len(pokemon_spawns) = 2
    /\ Cardinality(Skipped) = 1
    /\ Len(reads) = 1
    /\ puts = <<>>
    /\ success_count = 1

(***************************************************************************)
(* C18.  Without credentials, or when the login fails, the run ends before *)
(* the page loop: with status 2 or 1, and no page has been read from or    *)
(* written to the remote store.                                            *)
(***************************************************************************)
C18_AbortsBeforePages ==
    /\ ~credentials =>
          /\ wiki = NoWiki
          /\ pcMain \in {"start", "exited"}
          /\ pcMain = "exited" => exit_status = 2
    /\ wiki = PyNone =>
          /\ pcMain = "exited"
          /\ exit_status = 1
    /\ (~credentials \/ wiki # Client) =>
          /\ reads = <<>>
          /\ puts = <<>>
          /\ published = {}
          /\ processed_count = 0
          /\ pcPage = "idle"

\* The login failed with two subjects waiting, both in the pokedex table.
C18_Witness ==
    /\ wiki = PyNone
    /\ exit_status = 1
    /\ Len(pokemon_spawns) = 2
    /\ pokedex_data = Subjects
    /\ raising = {}

(***************************************************************************)
(* C19.  As stated: a subject with spawn records and no entry in the       *)
(* pokedex table still has its document rendered and passed to the         *)
(* publication step.                                                       *)
(***************************************************************************)
C19_AsStated ==
    \A j \in Visited :
        pokemon_spawns[j] \notin pokedex_data => pokemon_spawns[j] \in published

(***************************************************************************)
(* C19.  Amended: a subject with spawn records and no entry in the pokedex *)
(* table is skipped; no document is rendered, no page is read or written   *)
(* for it, and it counts neither as a failure nor as a success.            *)
(***************************************************************************)
C19_SkippedWithoutError ==
    /\ \A j \in Skipped :
          /\ pokemon_spawns[j] \notin published
          /\ \A r \in 1..Len(reads) : \A base \in {Subjects, pokedex_data} :
                reads[r].page # get_wiki_page_name(pokemon_spawns[j], base, Namespace)
          /\ \A w \in 1..Len(puts) : \A base \in {Subjects, pokedex_data} :
                puts[w].page # get_wiki_page_name(pokemon_spawns[j], base, Namespace)
    /\ BetweenPages =>
          /\ fail_count = Failures
          /\ success_count + fail_count = Cardinality(Visited \ Skipped)
    /\ (LoopFinished /\ Cardinality(Skipped) = Len(pokemon_spawns)) => exit_status = 0

\* The first subject has no pokedex entry and was skipped; the page of the
\* second was written, and the process ended with status 0.
C19_Witness ==
    /\ LoopFinished
    /\ exit_status = 0
    /\ Len(pokemon_spawns) = 2
    /\ Skipped = {1}
    /\ Len(reads) = 1
    /\ Len(puts) = 1
    /\ published = {pokemon_spawns[2]}
(***************************************************************************)
(* C20.  In the pre-sort of the two requirement lists a sub-record without *)
(* the sort field (species, id) is ordered as if the field were "": no     *)
(* sub-record with a non-empty field comes before it; the sort does not    *)
(* raise, the record gets a key on the normal path, and it is merged with  *)
(* the record that has the same sub-records in another order.              *)
(***************************************************************************)
SortFields ==
    {<<"pokemon_in_party_requirement", "species">>, <<"item_requirement", "id">>}

RequirementOf(spawn, key) ==
    DictGet(KeyConditions(ConditionsOf(spawn)), key, EmptyList)

\* Some sub-record of the requirement list has no sort field; all are
\* mappings, and the sort fields that are there are strings.
LacksSortField(value, field) ==
    /\ IsList(value)
    /\ \A x \in Range(value[2]) : IsDict(x) /\ IsStr(DictGet(x, field, PyStr("")))
    /\ \E x \in Range(value[2]) : ~DictHas(x, field)

MissingFirst(sorted, field) ==
    \A p, q \in 1..Len(sorted) :
        (p < q /\ ~DictHas(sorted[q], field)) =>
            DictGet(sorted[p], field, PyStr("")) = PyStr("")

\* Requirement lists with a sub-record that has neither species nor id.
ListsWithoutField ==
    { <<Pikachu, NoSpecies>>, <<NoSpecies, Eevee1>>, <<Eevee1, NoSpecies, Pikachu>>,
      <<ItemA, NoSpecies>>, <<ItemB, NoSpecies, ItemA>>, <<ItemA, ItemB, NoSpecies, NoSpecies>> }

\* The pre-sort alone, on these lists.
SortsMissingFirst ==
    \A l \in ListsWithoutField : \A kf \in SortFields :
        /\ ~SortRaises(PyList(l), kf[2])
        /\ MissingFirst(SortedByField(PyList(l), kf[2])[2], kf[2])
        /\ PermutationOf(l, SortedByField(PyList(l), kf[2])[2])

C20_MissingFieldSortsFirst ==
    /\ SortsMissingFirst
    /\ \A j \in 1..Len(spawn_list) : \A kf \in SortFields :
          (IsDict(ConditionsOf(spawn_list[j]))
             /\ LacksSortField(RequirementOf(spawn_list[j], kf[1]), kf[2])) =>
              /\ ~SortRaises(RequirementOf(spawn_list[j], kf[1]), kf[2])
              /\ MissingFirst(SortedByField(RequirementOf(spawn_list[j], kf[1]), kf[2])[2], kf[2])
              /\ pc = "raised" => i # j
              /\ j <= Len(keys) =>
                    /\ ~FellBack(j)
                    /\ \A h \in 1..Len(keys) :
                          DifferOnlyInSubRecordOrder(spawn_list[j], spawn_list[h]) =>
                              keys[h] = keys[j]

\* The sub-record without species comes last in one record and first in the
\* other; the two records were merged into one.
C20_Witness ==
    /\ Returned
    /\ Len(spawn_list) = 2
    /\ RequirementOf(spawn_list[1], "pokemon_in_party_requirement") = PyList(<<Pikachu, NoSpecies>>)
    /\ RequirementOf(spawn_list[2], "pokemon_in_party_requirement") = PyList(<<NoSpecies, Pikachu>>)
    /\ Len(final_list) = 1
(***************************************************************************)
(* C21.  As stated: a record whose condition is present but null is        *)
(* treated like one without condition: the conversion of its group does    *)
(* not raise, and when the call returns the record's output has a list as  *)
(* condition.biomes.                                                       *)
(***************************************************************************)
NullCondition(spawn) == DictGet(spawn, "condition", Absent) = PyNone

RaisedInConversion == pc = "raised" /\ i > Len(spawn_list)

C21_AsStated ==
    \A j \in 1..Len(keys) :
        NullCondition(spawn_list[j]) =>
            /\ ~(RaisedInConversion
                   /\ CopyRaises(merged_spawns[GroupOf(merged_spawns, keys[j])]))
            /\ Returned => IsList(OutBiomes(OutputOf(j)))
(***************************************************************************)
(* C22.  merge_similar_spawns leaves its input unchanged: no write of the  *)
(* call goes to a record of the argument, to its condition mapping or to   *)
(* one of its requirement lists, so that every input record has the        *)
(* contents it had before the call, the representatives included.          *)
(***************************************************************************)
\* The object is a record of the argument, its condition mapping or one
\* of its requirement lists.
InputObject(object) ==
    \/ \E j \in AllInputs : object = Record(j)
    \/ \E j \in AllInputs : object = Condition(j)
    \/ \E j \in AllInputs : \E f \in 1..2 :
          object = RequirementList(j, RequirementKeys[f][1])

StoresTo(object) == SelectSeq(stores, LAMBDA s : s.object = object)

\* The contents of input record j with the writes of the call applied.
LiveRecord(j) ==
    LET toRecord == StoresTo(Record(j))
        toCondition == StoresTo(Condition(j))
        r1 == IF toRecord = <<>> THEN spawn_list[j]
              ELSE DictSet(spawn_list[j], toRecord[Len(toRecord)].field,
                           toRecord[Len(toRecord)].value)
    IN  IF toCondition = <<>> THEN r1
        ELSE DictSet(r1, "condition",
                     DictSet(DictGet(spawn_list[j], "condition", EmptyDict),
                             toCondition[Len(toCondition)].field,
                             toCondition[Len(toCondition)].value))

C22_InputUnchanged ==
    /\ \A w \in 1..Len(stores) : ~InputObject(stores[w].object)
    /\ \A j \in AllInputs : LiveRecord(j) = spawn_list[j]
    /\ Returned => Len(stores) >= 2 * Len(final_list)

\* Two records were merged; the output differs from its representative,
\* whose own biomes list is still the one it came with.
C22_Witness ==
    /\ Returned
    /\ Len(spawn_list) = 2
    /\ Len(final_list) = 1
    /\ final_list[1] # spawn_list[1]
    /\ Cardinality(merged_spawns[1].biomes) = 2
    /\ \E w \in 1..Len(stores) : stores[w].object = copy(Condition(1))
(***************************************************************************)
(* C23.  Publication is idempotent across runs: once put_page has written  *)
(* the content to the page, no later call for that page with the same      *)
(* content calls put_page, and a later call that reads the page returns    *)
(* True.                                                                   *)
(***************************************************************************)
Written == \E w \in 1..Len(puts) : puts[w].ok

C23_NoSecondWrite ==
    /\ \A w \in 1..Len(puts) : puts[w].ok => w = Len(puts)
    /\ Written =>
          /\ store[page_name] = new_content
          /\ pcPage = "compare" =>
                md5(normalize(current_content_str)) = md5(normalize(new_content))
          /\ (pcPage = "returned" /\ ReadGaveText) => result = TRUE

\* The first call wrote a text that is not in normal form; the second call
\* read it back, wrote nothing and returned True.
C23_Witness ==
    /\ pcPage = "returned"
    /\ Len(reads) = 2
    /\ reads[2].outcome = <<"text">>
    /\ puts = <<[page |-> page_name, text |-> <<"x", " ">>, ok |-> TRUE]>>
    /\ new_content = <<"x", " ">>
    /\ result = TRUE
====
